---- MODULE Spec2Model ----
(***************************************************************************)
(* A model of package must (src/must.go): the process-wide failure-handler *)
(* registry, RegisterFailureHandler, abort (dispatch, then panic) and the  *)
(* check functions.  Goroutines are the members of Threads; each has a     *)
(* call stack of frames.  A panic unwinds the whole stack of its goroutine *)
(* to the caller's recover (as the tests of src/must_test.go do).          *)
(***************************************************************************)
EXTENDS Integers, Sequences, FiniteSets, TLC

VARIABLES
    failureHandlers,  \* the registry: the sequence of registered handlers
    mutex,            \* failureHandlersMutex: the goroutine holding it, or NoThread
    stack,            \* per goroutine, its call stack of frames, innermost last
    res,              \* per goroutine, what its current or last top-level call did
    input,            \* the arguments the top-level check calls are made with
    regOrder,         \* history: the handlers in the order their registrations took the lock
    fs                \* the file system: what the entry named EntryName is

vars == <<failureHandlers, mutex, stack, res, input, regOrder, fs>>

(* ------------------------------ bounds -------------------------------- *)

\* the registry never grows beyond MaxHandlers entries
MaxHandlers == 2
\* a goroutine's stack holds at most MaxDepth frames; one more overflows it
MaxDepth == 6
\* integers are -MaxNum..MaxNum, float64 values are the halves -MaxNum/2..MaxNum/2 and NaN
MaxNum == 1
\* containers hold 0..MaxLen elements
MaxLen == 2

Threads == {"t1", "t2"}
NoThread == "none"
\* the message each goroutine passes to the checks it calls
MsgOf(t) == IF t = "t1" THEN "x" ELSE "m"

(* ------------------------------ values -------------------------------- *)

\* A Go value: its dynamic type t and, by type, an integer n (int: the value;
\* float64: twice the value; bool: 0/1; container: its length; pointer: the int
\* it points to), a string s (a pointer: its address), nan for a float64 NaN, isnil for a nil
\* pointer, map or slice.  Type "nil" is the nil interface.  Where a check
\* reads the contents, elems are the elements of a slice and entries the
\* key-value pairs of a map.
Val(t, n, s, nan, isnil) ==
    [t |-> t, n |-> n, s |-> s, nan |-> nan, isnil |-> isnil, elems |-> <<>>,
     entries |-> {}]

NoVal == Val("none", 0, "", FALSE, FALSE)
IntVal(n) == Val("int", n, "", FALSE, FALSE)
FloatVal(n2) == Val("float64", n2, "", FALSE, FALSE)
NaN == Val("float64", 0, "", TRUE, FALSE)
StrVal(s) == Val("string", 0, s, FALSE, FALSE)
BoolVal(b) == Val("bool", IF b THEN 1 ELSE 0, "", FALSE, FALSE)
NilInterface == Val("nil", 0, "", FALSE, TRUE)

Ints == {IntVal(n) : n \in -MaxNum..MaxNum}
Floats == {FloatVal(n) : n \in -MaxNum..MaxNum} \cup {NaN}
Strings == {StrVal(""), StrVal("a"), StrVal("ab")}
Bools == {BoolVal(TRUE), BoolVal(FALSE)}

ContainerTypes == {"map[any]any", "[]any", "map[string]int", "[]int"}
PointerTypes == {"*int"}
\* the types whose boxed value is stored in the data word itself
PointerShaped == PointerTypes \cup {"map[any]any", "map[string]int"}

\* maps and slices of every length, and the nil map and the nil slice
Containers == {Val(t, n, "", FALSE, FALSE) : t \in ContainerTypes, n \in 0..MaxLen}
                \cup {Val(t, 0, "", FALSE, TRUE) : t \in ContainerTypes}
\* a pointer bound to a target and the nil pointer
Pointers == {Val(t, 1, "", FALSE, FALSE) : t \in PointerTypes}
              \cup {Val(t, 0, "", FALSE, TRUE) : t \in PointerTypes}

AnyVals == Ints \cup Floats \cup Strings \cup Bools \cup Containers \cup Pointers
             \cup {NilInterface}
Numeric == {"int", "float64"}

\* a non-nil error, as errors.New(msg) makes it
ErrVal(msg) == Val("*errors.errorString", 1, msg, FALSE, FALSE)
Errors == {ErrVal("boom")}

\* a slice and its elements
SliceVal(t, elems) == [Val(t, Len(elems), "", FALSE, FALSE) EXCEPT !.elems = elems]
NilSlice(t) == Val(t, 0, "", FALSE, TRUE)
SliceElems == {IntVal(0), IntVal(1)}
IntSlices == {SliceVal("[]int", e) : e \in UNION {[1..n -> SliceElems] : n \in 0..MaxLen}}
               \cup {NilSlice("[]int")}
FloatSlices == {SliceVal("[]float64", <<NaN>>), SliceVal("[]float64", <<NaN, FloatVal(1)>>)}

\* a map and its entries
MapVal(t, entries) ==
    [Val(t, Cardinality(entries), "", FALSE, FALSE) EXCEPT !.entries = entries]
NilMap(t) == Val(t, 0, "", FALSE, TRUE)
Entry(k, v) == [k |-> k, v |-> v]
EntrySets == {ea \cup eb : ea \in {{}, {Entry("a", 0)}, {Entry("a", 1)}},
                           eb \in {{}, {Entry("b", 2)}}}
StringIntMaps == {MapVal("map[string]int", e) : e \in EntrySets}
                   \cup {NilMap("map[string]int")}
MapKeys == {StrVal("a"), StrVal("b"), StrVal("c")}

\* a pointer to the int variable at address addr, which holds n
PtrVal(addr, n) == Val("*int", n, addr, FALSE, FALSE)
NilPtr == Val("*int", 0, "", FALSE, TRUE)
Addresses == {"p", "q"}
PtrVals == {PtrVal(ad, n) : ad \in Addresses, n \in 0..1} \cup {NilPtr}

\* a type argument T of a generic check
TypeArg(name) == Val("type", 0, name, FALSE, FALSE)
InterfaceTypes == {"any", "error"}
TypeArgs == {TypeArg(n) : n \in {"int", "string"} \cup InterfaceTypes}

(* ----------------------------- formatting ----------------------------- *)

Digit(d) == CASE d = 0 -> "0" [] d = 1 -> "1" [] d = 2 -> "2" [] d = 3 -> "3"
              [] d = 4 -> "4" [] d = 5 -> "5" [] d = 6 -> "6" [] d = 7 -> "7"
              [] d = 8 -> "8" [] OTHER -> "9"

RECURSIVE NatStr(_)
NatStr(n) == IF n < 10 THEN Digit(n) ELSE NatStr(n \div 10) \o Digit(n % 10)

Abs(n) == IF n < 0 THEN -n ELSE n

\* %v of an int
IntStr(n) == IF n < 0 THEN "-" \o NatStr(-n) ELSE NatStr(n)

\* %v of a float64 whose double is n2 (shortest decimal form)
FloatStr(n2, nan) == IF nan THEN "NaN"
                     ELSE IF n2 % 2 = 0 THEN IntStr(n2 \div 2)
                     ELSE (IF n2 < 0 THEN "-" ELSE "") \o NatStr(Abs(n2) \div 2) \o ".5"

\* fmt's %v of a value of the types the generic checks are instantiated with
FmtV(v) == CASE v.t = "int" -> IntStr(v.n)
             [] v.t = "float64" -> FloatStr(v.n, v.nan)
             [] v.t = "string" -> v.s
             [] v.t = "bool" -> (IF v.n = 1 THEN "true" ELSE "false")
             [] v.t = "*errors.errorString" -> v.s
             [] OTHER -> v.t

\* fmt's %T of a boxed value: the dynamic type, "<nil>" for the nil interface
FmtT(v) == IF v.t = "nil" THEN "<nil>" ELSE v.t

\* fmt.Sprint of one string operand is that string
GoSprint(s) == s

(* ----------------------- Go's comparison operators -------------------- *)

GoEq_Bitwise(a, b) == a = b

\* ==: on float64 a NaN equals nothing, itself included
GoEq(a, b) == CASE a.t = "float64" -> ~a.nan /\ ~b.nan /\ a.n = b.n
                [] a.t = "string" -> a.s = b.s
                [] OTHER -> a.n = b.n

\* <: every ordered comparison with a NaN is false
GoLess(a, b) == ~a.nan /\ ~b.nan /\ a.n < b.n

GoLessEq(a, b) == ~a.nan /\ ~b.nan /\ a.n <= b.n

GoGreater(a, b) == GoLess(b, a)

GoGreaterEq(a, b) == GoLessEq(b, a)

\* len of a map, slice or string
GoLen(v) == IF v.t = "string" THEN Len(v.s) ELSE v.n

GoContains_First(sl, v) == sl.elems # <<>> /\ GoEq(sl.elems[1], v)

\* slices.Contains(sl, v): some element == v
GoContains(sl, v) == \E i \in DOMAIN sl.elems : GoEq(sl.elems[i], v)

GoMapHasKey_NonZero(m, key) == \E e \in m.entries : e.k = key.s /\ e.v # 0

\* _, ok := m[key]
GoMapHasKey(m, key) == \E e \in m.entries : e.k = key.s

\* whether a type implements an interface type
Implements(t, iface) == iface = "any" \/ (iface = "error" /\ t = "*errors.errorString")

GoAssert_ByName(v, T) == v.t = T.s

\* _, ok := value.(T): for an interface type T the value must be non-nil and
\* its dynamic type implement T; for any other T the dynamic type must be T
GoAssert(v, T) == IF T.s \in InterfaceTypes
                  THEN v.t # "nil" /\ Implements(v.t, T.s)
                  ELSE v.t = T.s

(* ---------------------------- the file system ------------------------- *)

\* The one name that may exist in the file system, and what it can be:
\* nothing, a regular file, a directory, or an entry the process may not
\* look up.
EntryName == "a"
FsStates == {"missing", "file", "dir", "denied"}

\* os.Stat(path): the error (none is ""), and FileInfo.IsDir()
Stat(path) ==
    IF path # EntryName \/ fs = "missing" THEN [err |-> "ENOENT", isDir |-> FALSE]
    ELSE IF fs = "denied" THEN [err |-> "EACCES", isDir |-> FALSE]
    ELSE [err |-> "", isDir |-> fs = "dir"]

\* os.IsNotExist(err)
IsNotExist(err) == err = "ENOENT"

\* what a call of os.Stat lets its caller see
Seen(path) == IF Stat(path).err # "" THEN Stat(path).err
              ELSE IF Stat(path).isDir THEN "dir" ELSE "file"

TypeWordNil_Unboxed(v) == v.isnil

\* the words of an interface value (eface): the type word and the data word
TypeWordNil(v) == v.t = "nil"

DataWordNil_Never(v) == FALSE

DataWordNil(v) == v.isnil /\ (v.t = "nil" \/ v.t \in PointerShaped)

(* --------------------------- check functions -------------------------- *)

\* One statement of a check function: the condition under which it calls
\* abort, and the details it passes; whether evaluating the statement
\* dereferences a nil pointer; and what a call of os.Stat in its condition
\* sees ("" when it makes none).
Stmt(viol, det) == [viol |-> viol, det |-> det, crash |-> FALSE, stat |-> ""]
DerefStmt(crash, viol, det) == [Stmt(viol, det) EXCEPT !.crash = crash]
StatStmt(path, viol, det) == [Stmt(viol, det) EXCEPT !.stat = Seen(path)]

NotNil(a) ==
    << Stmt(TypeWordNil(a), "expected a non-nil value, got nil"),
       Stmt(DataWordNil(a) /\ ~TypeWordNil(a),
            "expected a non-nil value, got nil pointer of type " \o FmtT(a)) >>

NotEqual(a, b) ==
    << Stmt(GoEq(a, b),
            "expected " \o FmtV(a) \o " to not be equal to " \o FmtV(b)) >>

Equal(a, b) ==
    << Stmt(~GoEq(a, b),
            "expected " \o FmtV(a) \o " to be equal to " \o FmtV(b)) >>

True(a) == << Stmt(~(a.n = 1), "expected true, got false") >>

False(a) == << Stmt(a.n = 1, "expected false, got true") >>

NotZero(a) == << Stmt(GoEq(a, [a EXCEPT !.n = 0, !.nan = FALSE]),
                      "expected non-zero value, got zero") >>

GreaterThan(a, b) ==
    << Stmt(GoLessEq(a, b),
            "expected " \o FmtV(a) \o " to be greater than " \o FmtV(b)) >>

LessThan(a, b) ==
    << Stmt(GoGreaterEq(a, b),
            "expected " \o FmtV(a) \o " to be less than " \o FmtV(b)) >>

GreaterThanOrEqual(a, b) ==
    << Stmt(GoLess(a, b),
            "expected " \o FmtV(a) \o " to be greater than or equal to " \o FmtV(b)) >>

LessThanOrEqual(a, b) ==
    << Stmt(GoGreater(a, b),
            "expected " \o FmtV(a) \o " to be less than or equal to " \o FmtV(b)) >>

\* the type switch of NotEmpty and Empty matches the dynamic type exactly
NotEmpty(a) ==
    << CASE a.t = "map[any]any" ->
              Stmt(GoLen(a) = 0, "expected a non-empty map, got empty")
         [] a.t = "[]any" ->
              Stmt(GoLen(a) = 0, "expected a non-empty slice, got empty")
         [] a.t = "string" ->
              Stmt(a.s = "", "expected a non-empty string, got empty")
         [] OTHER ->
              Stmt(TRUE, "expected a map, slice or string, got " \o FmtT(a)) >>

Empty(a) ==
    << CASE a.t = "map[any]any" ->
              Stmt(GoLen(a) # 0, "expected an empty map, got non-empty")
         [] a.t = "[]any" ->
              Stmt(GoLen(a) # 0, "expected an empty slice, got non-empty")
         [] a.t = "string" ->
              Stmt(a.s # "", "expected an empty string, got non-empty")
         [] OTHER ->
              Stmt(TRUE, "expected a map, slice or string, got " \o FmtT(a)) >>

IsNil(a) == << Stmt(~TypeWordNil(a), "expected nil, got non-nil") >>

IsNotNil(a) == << Stmt(TypeWordNil(a), "expected non-nil, got nil") >>

NoError(a) == << Stmt(~TypeWordNil(a), "expected no error, got: " \o FmtV(a)) >>

Error(a) == << Stmt(TypeWordNil(a), "expected an error, got nil") >>

Contains(a, b) ==
    << Stmt(~GoContains(a, b),
            "expected slice to contain " \o FmtV(b) \o ", but it does not") >>

NotContains(a, b) ==
    << Stmt(GoContains(a, b),
            "expected slice to not contain " \o FmtV(b) \o ", but it does") >>

FileExists(a) ==
    << StatStmt(a.s, IsNotExist(Stat(a.s).err),
                "expected file " \o a.s \o " to exist, but it does not") >>

DirExists_OneStat(a) ==
    << StatStmt(a.s, IsNotExist(Stat(a.s).err),
                "expected directory " \o a.s \o " to exist, but it does not") >>

DirExists(a) ==
    << StatStmt(a.s, IsNotExist(Stat(a.s).err),
                "expected directory " \o a.s \o " to exist, but it does not"),
       StatStmt(a.s, Stat(a.s).err = "" /\ ~Stat(a.s).isDir,
                "expected " \o a.s \o " to be a directory, but it is not") >>

TypeOf(a, T) ==
    << Stmt(~GoAssert(a, T),
            "expected value of type *" \o T.s \o ", got " \o FmtT(a)) >>

TypeOfNot(a, T) ==
    << Stmt(GoAssert(a, T),
            "expected value not of type *" \o T.s \o ", got " \o FmtT(a)) >>

\* *a of a pointer to an int
Pointee(a) == IntVal(a.n)

PointsToSame_NoNilTest(a, b) ==
    << DerefStmt(a.isnil \/ b.isnil, ~GoEq(Pointee(a), Pointee(b)),
                 "expected pointers to point to the same value, got "
                   \o FmtV(Pointee(a)) \o " and " \o FmtV(Pointee(b))) >>

PointsToSame(a, b) ==
    << Stmt(a.isnil \/ b.isnil, "expected non-nil pointers, got nil"),
       DerefStmt(a.isnil \/ b.isnil, ~GoEq(Pointee(a), Pointee(b)),
                 "expected pointers to point to the same value, got "
                   \o FmtV(Pointee(a)) \o " and " \o FmtV(Pointee(b))) >>

PointsToNotSame(a, b) ==
    << Stmt(a.isnil \/ b.isnil, "expected non-nil pointers, got nil"),
       DerefStmt(a.isnil \/ b.isnil, GoEq(Pointee(a), Pointee(b)),
                 "expected pointers to point to different values, got "
                   \o FmtV(Pointee(a)) \o " and " \o FmtV(Pointee(b))) >>

SliceHas(a, b) ==
    << Stmt(~GoContains(a, b),
            "expected slice to have " \o FmtV(b) \o ", but it does not") >>

SliceNotHas(a, b) ==
    << Stmt(GoContains(a, b),
            "expected slice to not have " \o FmtV(b) \o ", but it does") >>

MapHas(a, b) ==
    << Stmt(~GoMapHasKey(a, b),
            "expected map to have key " \o FmtV(b) \o ", but it does not") >>

MapNotHas(a, b) ==
    << Stmt(GoMapHasKey(a, b),
            "expected map to not have key " \o FmtV(b) \o ", but it does") >>

MapNotEmpty(a) ==
    << Stmt(GoLen(a) = 0, "expected map to be non-empty, but it is empty") >>

MapEmpty(a) == << Stmt(GoLen(a) # 0, "expected map to be empty, but it is not") >>

IsEmpty(a) == << Stmt(GoLen(a) # 0, "expected slice to be empty, but it is not") >>

\* the statements of check function fn applied to (a, b)
Body(fn, a, b) ==
    CASE fn = "NotNil" -> NotNil(a)
      [] fn = "NotEqual" -> NotEqual(a, b)
      [] fn = "Equal" -> Equal(a, b)
      [] fn = "True" -> True(a)
      [] fn = "False" -> False(a)
      [] fn = "NotZero" -> NotZero(a)
      [] fn = "GreaterThan" -> GreaterThan(a, b)
      [] fn = "LessThan" -> LessThan(a, b)
      [] fn = "GreaterThanOrEqual" -> GreaterThanOrEqual(a, b)
      [] fn = "LessThanOrEqual" -> LessThanOrEqual(a, b)
      [] fn = "NotEmpty" -> NotEmpty(a)
      [] fn = "Empty" -> Empty(a)
      [] fn = "IsNil" -> IsNil(a)
      [] fn = "NoError" -> NoError(a)
      [] fn = "Error" -> Error(a)
      [] fn = "Contains" -> Contains(a, b)
      [] fn = "NotContains" -> NotContains(a, b)
      [] fn = "FileExists" -> FileExists(a)
      [] fn = "DirExists" -> DirExists(a)
      [] fn = "TypeOf" -> TypeOf(a, b)
      [] fn = "TypeOfNot" -> TypeOfNot(a, b)
      [] fn = "PointsToSame" -> PointsToSame(a, b)
      [] fn = "PointsToNotSame" -> PointsToNotSame(a, b)
      [] fn = "SliceHas" -> SliceHas(a, b)
      [] fn = "SliceNotHas" -> SliceNotHas(a, b)
      [] fn = "MapHas" -> MapHas(a, b)
      [] fn = "MapNotHas" -> MapNotHas(a, b)
      [] fn = "MapNotEmpty" -> MapNotEmpty(a)
      [] fn = "MapEmpty" -> MapEmpty(a)
      [] fn = "IsEmpty" -> IsEmpty(a)
      [] OTHER -> IsNotNil(a)

\* the check functions whose parameter types admit the arguments (a, b)
FnsFor(a, b) ==
    IF b = NoVal
    THEN {"NotNil", "NotEmpty", "Empty", "IsNil", "IsNotNil"}
           \cup (IF a.t = "bool" THEN {"True", "False"} ELSE {})
           \cup (IF a.t \in Numeric THEN {"NotZero"} ELSE {})
           \cup (IF a.t \in {"nil", "*errors.errorString"} THEN {"NoError", "Error"} ELSE {})
           \cup (IF a.t = "string" THEN {"FileExists", "DirExists"} ELSE {})
           \cup (IF a.t \in {"map[any]any", "map[string]int"}
                 THEN {"MapEmpty", "MapNotEmpty"} ELSE {})
           \cup (IF a.t \in {"[]any", "[]int"} THEN {"IsEmpty"} ELSE {})
    ELSE IF b.t = "type" THEN {"TypeOf", "TypeOfNot"}
    ELSE IF a.t \in PointerTypes THEN {"PointsToSame", "PointsToNotSame"}
    ELSE IF a.t \in {"[]int", "[]float64"}
    THEN {"Contains", "NotContains", "SliceHas", "SliceNotHas"}
    ELSE IF a.t = "map[string]int" THEN {"MapHas", "MapNotHas"}
    ELSE {"Equal", "NotEqual"}
           \cup (IF a.t \in Numeric
                 THEN {"GreaterThan", "LessThan", "GreaterThanOrEqual", "LessThanOrEqual"}
                 ELSE {})

\* the values TypeOf and TypeOfNot are called with
TypeOfVals == {IntVal(0), StrVal("a"), NilInterface, NilPtr} \cup Errors

\* the argument lists the checks are called with: one boxed value; two
\* values of one comparable type; a value and a type argument; two pointers
\* (pointers to one address see one value); a slice and a value; a map and
\* a key
Inputs == {[a |-> v, b |-> NoVal] : v \in AnyVals \cup Errors}
            \cup {[a |-> v, b |-> w] : v, w \in Ints}
            \cup {[a |-> v, b |-> w] : v, w \in Floats}
            \cup {[a |-> v, b |-> w] : v, w \in Strings}
            \cup {[a |-> v, b |-> w] : v, w \in Bools}
            \cup {[a |-> v, b |-> T] : v \in TypeOfVals, T \in TypeArgs}
            \cup {i \in {[a |-> v, b |-> w] : v, w \in PtrVals} :
                     (i.a.s = i.b.s /\ ~i.a.isnil /\ ~i.b.isnil) => i.a.n = i.b.n}
            \cup {[a |-> sl, b |-> v] : sl \in IntSlices, v \in Ints}
            \cup {[a |-> sl, b |-> v] : sl \in FloatSlices, v \in {NaN, FloatVal(1)}}
            \cup {[a |-> m, b |-> k] : m \in StringIntMaps, k \in MapKeys}

(* ------------------------------ handlers ------------------------------ *)

\* The registered callbacks (type OnFailure), by what their body does:
\* h1 and h2 return; hPanic panics; hReg registers h2 and returns; hCheck
\* calls the check function True and returns if that returns.
Handlers == {"h1", "h2", "hPanic", "hReg"}
NestedHandlers == Handlers \cup {"hCheck"}
\* what a torn read of the slice header can put in the slot past the old length
Garbage == "garbage"

(* ------------------------------- frames ------------------------------- *)

Frame(fn, name, pc, msg, det, a, b) ==
    [fn |-> fn, name |-> name, pc |-> pc, k |-> 1, msg |-> msg, det |-> det,
     a |-> a, b |-> b, snap |-> <<>>, H |-> <<>>, inv |-> <<>>, raced |-> FALSE,
     tmp |-> <<>>, regs |-> <<>>, done |-> <<>>]

CheckFrame(fn, msg, a, b) == Frame("check", fn, "body", msg, "", a, b)
AbortFrame(msg, det) == Frame("abort", "abort", "range", msg, det, NoVal, NoVal)
HandlerFrame(h, msg, det) == Frame("handler", h, "start", msg, det, NoVal, NoVal)
RegisterFrame(f) == Frame("Register", f, "lock", "", "", NoVal, NoVal)

Top(t) == stack[t][Len(stack[t])]
Running(t) == stack[t] # <<>>
OnTop(t, fn) == Running(t) /\ Top(t).fn = fn

\* what a goroutine's top-level call has done so far
FreshRes(op, fn, msg) ==
    [state |-> "running", op |-> op, fn |-> fn, msg |-> msg, by |-> "",
     payload |-> "", ndisp |-> 0, ninv |-> 0, amsg |-> "", adet |-> "",
     inv |-> <<>>, H |-> <<>>, raced |-> FALSE, obs |-> <<>>, regs |-> <<>>,
     done |-> <<>>]

IdleRes == [FreshRes("", "", "") EXCEPT !.state = "idle"]

\* a fatal runtime error ends the process: nothing runs after it
Alive == \A t \in Threads : res[t].state # "fatal"

\* the Register calls that have not yet stored their handler
Pending == Cardinality({t \in Threads : OnTop(t, "Register") /\ Top(t).pc \in {"lock", "append", "store"}})

ReplaceTop(st, fr) == [st EXCEPT ![Len(st)] = fr]
Pop(st) == SubSeq(st, 1, Len(st) - 1)

\* the callee returns: its frame is popped; the top-level call returns normally
\* when the stack empties
Return(t) ==
    /\ stack' = [stack EXCEPT ![t] = Pop(@)]
    /\ res' = IF Len(stack[t]) = 1
              THEN [res EXCEPT ![t].state = "returned"]
              ELSE res

Unwind_OneFrame(st) == Pop(st)

Unwind_Recovered(st) == IF Len(st) > 2 THEN SubSeq(st, 1, 2) ELSE <<>>

\* a panic unwinds every frame of the goroutine (no frame of the package
\* recovers) and reaches the caller of the top-level call
Unwind(st) == <<>>

Panic(t, by, payload, r) ==
    /\ stack' = [stack EXCEPT ![t] = Unwind(@)]
    /\ res' = [res EXCEPT ![t] = [r EXCEPT !.state = "panicked", !.by = by,
                                             !.payload = payload]]

\* the goroutine stack exceeds its limit: a fatal error, not a panic
Overflow(t) ==
    /\ stack' = [stack EXCEPT ![t] = <<>>]
    /\ res' = [res EXCEPT ![t].state = "fatal", ![t].by = "overflow"]

\* the top frame, updated to caller, calls a function whose frame is fr
Call(t, caller, fr, r) ==
    IF Len(stack[t]) >= MaxDepth
    THEN Overflow(t)
    ELSE /\ stack' = [stack EXCEPT ![t] = Append(ReplaceTop(@, caller), fr)]
         /\ res' = [res EXCEPT ![t] = r]

(* ------------------------ RegisterFailureHandler ---------------------- *)

\* a goroutine calls RegisterFailureHandler(f)
CallRegister(t, f) ==
    /\ Alive /\ ~Running(t)
    /\ Len(failureHandlers) + Pending < MaxHandlers
    /\ stack' = [stack EXCEPT ![t] = <<RegisterFrame(f)>>]
    /\ res' = [res EXCEPT ![t] = FreshRes("Register", f, "")]
    /\ UNCHANGED <<failureHandlers, mutex, input, regOrder, fs>>

CanLock_Always(t) == TRUE

\* whether Lock() can return to a caller: the mutex is free
CanLock(t) == mutex = NoThread

\* failureHandlersMutex.Lock()
RegLock(t) ==
    /\ Alive /\ OnTop(t, "Register") /\ Top(t).pc = "lock"
    /\ CanLock(t)
    /\ mutex' = t
    /\ regOrder' = Append(regOrder, Top(t).name)
    /\ stack' = [stack EXCEPT ![t] = ReplaceTop(@, [Top(t) EXCEPT !.pc = "append"])]
    /\ UNCHANGED <<failureHandlers, res, input, fs>>

GoAppend_Prepend(sl, f) == <<f>> \o sl

\* append(failureHandlers, f): reads the registry and builds the longer slice
GoAppend(sl, f) == Append(sl, f)

RegAppend(t) ==
    /\ Alive /\ OnTop(t, "Register") /\ Top(t).pc = "append"
    /\ stack' = [stack EXCEPT ![t] = ReplaceTop(@,
                   [Top(t) EXCEPT !.pc = "store", !.tmp = GoAppend(failureHandlers, Top(t).name)])]
    /\ UNCHANGED <<failureHandlers, mutex, res, input, regOrder, fs>>

\* failureHandlers = <the appended slice>: the store of the slice header
RegStore(t) ==
    /\ Alive /\ OnTop(t, "Register") /\ Top(t).pc = "store"
    /\ failureHandlers' = Top(t).tmp
    /\ stack' = [stack EXCEPT ![t] = ReplaceTop(@, [Top(t) EXCEPT !.pc = "unlock"])]
    /\ UNCHANGED <<mutex, res, input, regOrder, fs>>

\* the deferred failureHandlersMutex.Unlock(), and the return
RegUnlock(t) ==
    /\ Alive /\ OnTop(t, "Register") /\ Top(t).pc = "unlock"
    /\ mutex' = NoThread
    /\ Return(t)
    /\ UNCHANGED <<failureHandlers, input, regOrder, fs>>

(* -------------------------------- abort ------------------------------- *)

\* the goroutines whose store of the slice header is in progress
Writers(t) == {u \in Threads \ {t} : OnTop(u, "Register") /\ Top(u).pc = "store"}

\* What the range expression of abort can read.  abort takes no lock: a
\* read during another goroutine's store is a data race, and yields the old
\* header, the new one, or the old array with the new length.
RangeReads(t) ==
    {failureHandlers}
      \cup {Top(u).tmp : u \in Writers(t)}
      \cup {Append(failureHandlers, Garbage) : u \in Writers(t)}

\* history: the registrations that have returned
Returned == IF mutex = NoThread THEN regOrder ELSE Pop(regOrder)

\* for _, f := range failureHandlers: the range expression is evaluated once.
\* The frame also records the registry at that moment (H), whether a
\* registration held the lock (raced), and the registrations begun (regs) and
\* returned (done) by then.
AbortRange(t) ==
    /\ Alive /\ OnTop(t, "abort") /\ Top(t).pc = "range"
    /\ \E sl \in RangeReads(t) :
         stack' = [stack EXCEPT ![t] = ReplaceTop(@,
                     [Top(t) EXCEPT !.pc = "loop", !.k = 1, !.snap = sl,
                                    !.H = failureHandlers,
                                    !.raced = (mutex \notin {NoThread, t}),
                                    !.regs = regOrder, !.done = Returned])]
    /\ UNCHANGED <<failureHandlers, mutex, res, input, regOrder, fs>>

NextIndex_Skip(k) == k + 2

\* the index of the element the loop visits after element k
NextIndex(k) == k + 1

LoopSlice_Live(fr) == failureHandlers

\* the slice the loop of abort ranges over: the one its range expression read
LoopSlice(fr) == fr.snap

\* f(message, details) for the next element of the slice
AbortInvoke(t) ==
    /\ Alive /\ OnTop(t, "abort") /\ Top(t).pc = "loop"
    /\ Top(t).k <= Len(LoopSlice(Top(t)))
    /\ LoopSlice(Top(t))[Top(t).k] # Garbage
    /\ LET fr == Top(t)
           h == LoopSlice(fr)[fr.k]
           ev == <<h, fr.msg, fr.det>>
       IN Call(t, [fr EXCEPT !.k = NextIndex(fr.k), !.inv = Append(@, ev)],
               HandlerFrame(h, fr.msg, fr.det),
               [res[t] EXCEPT !.ninv = @ + 1])
    /\ UNCHANGED <<failureHandlers, mutex, input, regOrder, fs>>

\* the call of a func value read from a torn slice header: a nil or wild
\* func value, which the runtime answers with a panic or a fatal fault
AbortCrash(t) ==
    /\ Alive /\ OnTop(t, "abort") /\ Top(t).pc = "loop"
    /\ Top(t).k <= Len(LoopSlice(Top(t)))
    /\ LoopSlice(Top(t))[Top(t).k] = Garbage
    /\ \E st \in {"panicked", "fatal"} :
         /\ stack' = [stack EXCEPT ![t] = <<>>]
         /\ res' = [res EXCEPT ![t].state = st, ![t].by = "runtime",
                               ![t].raced = TRUE]
    /\ UNCHANGED <<failureHandlers, mutex, input, regOrder, fs>>

AbortPayload_NoSeparator(message, details) == message \o GoSprint(details)

\* the payload of abort's panic
AbortPayload(message, details) == message \o ": " \o GoSprint(details)

\* whether the loop of abort is over after k - 1 of n elements
LoopDone(k, n) == k > n

\* panic(message + ": " + fmt.Sprint(details)), after the loop
AbortPanic(t) ==
    /\ Alive /\ OnTop(t, "abort") /\ Top(t).pc = "loop"
    /\ LoopDone(Top(t).k, Len(LoopSlice(Top(t))))
    /\ LET fr == Top(t)
       IN Panic(t, "abort", AbortPayload(fr.msg, fr.det),
                [res[t] EXCEPT !.amsg = fr.msg, !.adet = fr.det, !.inv = fr.inv,
                               !.H = fr.H, !.raced = fr.raced, !.regs = fr.regs,
                               !.done = fr.done])
    /\ UNCHANGED <<failureHandlers, mutex, input, regOrder, fs>>

(* ------------------------- the handlers' bodies ----------------------- *)

\* a handler's body ends and it returns to the loop of abort
HandlerReturn(t) ==
    /\ Alive /\ OnTop(t, "handler")
    /\ \/ Top(t).name \in {"h1", "h2"} /\ Top(t).pc = "start"
       \/ Top(t).name \in {"hReg", "hCheck"} /\ Top(t).pc = "ret"
    /\ Return(t)
    /\ UNCHANGED <<failureHandlers, mutex, input, regOrder, fs>>

\* a handler's body panics
HandlerPanic(t) ==
    /\ Alive /\ OnTop(t, "handler")
    /\ Top(t).name = "hPanic"
    /\ Panic(t, "handler", "handler panic", res[t])
    /\ UNCHANGED <<failureHandlers, mutex, input, regOrder, fs>>

\* a handler's body calls RegisterFailureHandler(h2)
HandlerRegister(t) ==
    /\ Alive /\ OnTop(t, "handler")
    /\ Top(t).name = "hReg" /\ Top(t).pc = "start"
    /\ Len(failureHandlers) + Pending < MaxHandlers
    /\ Call(t, [Top(t) EXCEPT !.pc = "ret"], RegisterFrame("h2"), res[t])
    /\ UNCHANGED <<failureHandlers, mutex, input, regOrder, fs>>

\* a handler's body calls True(v, "nested")
HandlerCheck(t) ==
    /\ Alive /\ OnTop(t, "handler")
    /\ Top(t).name = "hCheck" /\ Top(t).pc = "start"
    /\ \E v \in Bools :
         Call(t, [Top(t) EXCEPT !.pc = "ret"], CheckFrame("True", "nested", v, NoVal), res[t])
    /\ UNCHANGED <<failureHandlers, mutex, input, regOrder, fs>>

(* --------------------- the calls of check functions ------------------- *)

\* a goroutine calls check function fn on the input, with its message
CallCheck(t, fn) ==
    /\ Alive /\ ~Running(t)
    /\ fn \in FnsFor(input.a, input.b)
    /\ stack' = [stack EXCEPT ![t] = <<CheckFrame(fn, MsgOf(t), input.a, input.b)>>]
    /\ res' = [res EXCEPT ![t] = FreshRes("check", fn, MsgOf(t))]
    /\ UNCHANGED <<failureHandlers, mutex, input, regOrder, fs>>

\* the statements of the check function of frame fr
FrameBody(fr) == Body(fr.name, fr.a, fr.b)

\* the call's record after statement st: what its os.Stat saw is added
Observed(r, st) == IF st.stat = "" THEN r ELSE [r EXCEPT !.obs = Append(@, st.stat)]

\* the condition of the next statement does not hold: the statement is skipped
CheckSkip(t) ==
    /\ Alive /\ OnTop(t, "check")
    /\ Top(t).k <= Len(FrameBody(Top(t)))
    /\ LET st == FrameBody(Top(t))[Top(t).k]
       IN /\ ~st.crash /\ ~st.viol
          /\ stack' = [stack EXCEPT ![t] = ReplaceTop(@, [Top(t) EXCEPT !.k = @ + 1])]
          /\ res' = [res EXCEPT ![t] = Observed(@, st)]
    /\ UNCHANGED <<failureHandlers, mutex, input, regOrder, fs>>

\* the condition of the next statement holds: abort(message, details); a
\* statement that dereferences a nil pointer raises a run-time panic instead
CheckAbort(t) ==
    /\ Alive /\ OnTop(t, "check")
    /\ Top(t).k <= Len(FrameBody(Top(t)))
    /\ LET fr == Top(t)
           st == FrameBody(fr)[fr.k]
       IN /\ st.crash \/ st.viol
          /\ IF st.crash
             THEN Panic(t, "runtime", "nil pointer dereference", res[t])
             ELSE Call(t, [fr EXCEPT !.k = @ + 1],
                       AbortFrame(fr.msg, st.det),
                       [Observed(res[t], st) EXCEPT
                          !.ndisp = IF Len(stack[t]) = 1 THEN @ + 1 ELSE @])
    /\ UNCHANGED <<failureHandlers, mutex, input, regOrder, fs>>

\* the end of the check function's body: it returns
CheckReturn(t) ==
    /\ Alive /\ OnTop(t, "check")
    /\ Top(t).k > Len(FrameBody(Top(t)))
    /\ Return(t)
    /\ UNCHANGED <<failureHandlers, mutex, input, regOrder, fs>>

(* --------------------------- specifications --------------------------- *)

\* the checks of the concurrent specification take a boolean
CoreInputs == {[a |-> v, b |-> NoVal] : v \in Bools}
CoreFns == {"True", "False"}

\* var failureHandlers []OnFailure = []OnFailure{}; the mutex is unlocked
Init ==
    /\ failureHandlers = <<>>
    /\ mutex = NoThread
    /\ stack = [t \in Threads |-> <<>>]
    /\ res = [t \in Threads |-> IdleRes]
    /\ input \in CoreInputs
    /\ regOrder = <<>>
    /\ fs = "missing"

\* the steps every goroutine takes inside the package
Step(t) ==
    \/ RegLock(t) \/ RegAppend(t) \/ RegStore(t) \/ RegUnlock(t)
    \/ AbortRange(t) \/ AbortInvoke(t) \/ AbortCrash(t) \/ AbortPanic(t)
    \/ HandlerReturn(t) \/ HandlerPanic(t) \/ HandlerRegister(t)
    \/ CheckSkip(t) \/ CheckAbort(t) \/ CheckReturn(t)

Next ==
    \E t \in Threads :
        \/ \E f \in Handlers : CallRegister(t, f)
        \/ \E fn \in CoreFns : CallCheck(t, fn)
        \/ Step(t)

Spec == Init /\ [][Next]_vars

\* The check functions on every input, called by goroutines of a process
\* whose registry was filled before: no registration runs meanwhile.
CheckFns == {"NotNil", "NoError", "Error", "NotEqual", "Equal", "True", "False",
             "NotZero", "GreaterThan", "LessThan", "GreaterThanOrEqual",
             "LessThanOrEqual", "NotEmpty", "Empty", "Contains", "NotContains",
             "IsNil", "IsNotNil", "FileExists", "DirExists", "TypeOf", "TypeOfNot",
             "PointsToSame", "PointsToNotSame", "SliceHas", "SliceNotHas", "MapHas",
             "MapNotHas", "MapNotEmpty", "MapEmpty", "IsEmpty"}

\* the input whose path names the entry of the file system
PathInput == [a |-> StrVal(EntryName), b |-> NoVal]

FilledRegistries == {<<>>, <<"h1">>, <<"h1", "h2">>, <<"hPanic">>}

InitChecks ==
    /\ failureHandlers \in FilledRegistries
    /\ mutex = NoThread
    /\ stack = [t \in Threads |-> <<>>]
    /\ res = [t \in Threads |-> IdleRes]
    /\ input \in Inputs
    /\ regOrder = failureHandlers
    /\ fs \in (IF input = PathInput THEN FsStates ELSE {"missing"})

NextChecks ==
    \E t \in Threads :
        \/ \E fn \in CheckFns : CallCheck(t, fn)
        \/ CheckSkip(t) \/ CheckAbort(t) \/ CheckReturn(t)
        \/ AbortRange(t) \/ AbortInvoke(t) \/ AbortPanic(t)
        \/ HandlerReturn(t) \/ HandlerPanic(t)

SpecChecks == InitChecks /\ [][NextChecks]_vars

\* One goroutine, and handlers that call back into the package.
NextNested ==
    \E t \in {"t1"} :
        \/ \E f \in NestedHandlers : CallRegister(t, f)
        \/ \E fn \in CoreFns : CallCheck(t, fn)
        \/ RegLock(t) \/ RegAppend(t) \/ RegStore(t) \/ RegUnlock(t)
        \/ AbortRange(t) \/ AbortInvoke(t) \/ AbortPanic(t)
        \/ HandlerReturn(t) \/ HandlerPanic(t) \/ HandlerRegister(t) \/ HandlerCheck(t)
        \/ CheckSkip(t) \/ CheckAbort(t) \/ CheckReturn(t)

SpecNested == Init /\ [][NextNested]_vars

\* another process creates, removes or replaces the entry, or changes who
\* may look it up
FsChange ==
    /\ Alive
    /\ fs' \in FsStates \ {fs}
    /\ UNCHANGED <<failureHandlers, mutex, stack, res, input, regOrder>>

\* FileExists and DirExists on a path of a file system that other processes
\* change meanwhile.
FsFns == {"FileExists", "DirExists"}

InitFs ==
    /\ failureHandlers \in {<<>>, <<"h1">>}
    /\ mutex = NoThread
    /\ stack = [t \in Threads |-> <<>>]
    /\ res = [t \in Threads |-> IdleRes]
    /\ input = PathInput
    /\ regOrder = failureHandlers
    /\ fs \in FsStates

NextFs ==
    \/ FsChange
    \/ \E t \in Threads :
        \/ \E fn \in FsFns : CallCheck(t, fn)
        \/ CheckSkip(t) \/ CheckAbort(t) \/ CheckReturn(t)
        \/ AbortRange(t) \/ AbortInvoke(t) \/ AbortPanic(t)
        \/ HandlerReturn(t)

SpecFs == InitFs /\ [][NextFs]_vars

(* ------------------------------- claims ------------------------------- *)

\* the frames of all goroutines
Frames == UNION {{stack[t][i] : i \in DOMAIN stack[t]} : t \in Threads}

\* the handler invocations a dispatch over registry hs makes, in order
Events(hs, msg, det) == [i \in 1..Len(hs) |-> <<hs[i], msg, det>>]

Passed(t, fn) == res[t].op = "check" /\ res[t].fn = fn /\ res[t].state = "returned"
Failed(t, fn) == res[t].op = "check" /\ res[t].fn = fn /\ res[t].state = "panicked"
Finished(t, fn) == Passed(t, fn) \/ Failed(t, fn)

\* the goroutine's call ended in the panic that abort raises
Aborted(t) == res[t].state = "panicked" /\ res[t].by = "abort"

C2_PanicPayload ==
    \A t \in Threads :
        Aborted(t) =>
          /\ \A i \in DOMAIN res[t].inv :
               res[t].payload = res[t].inv[i][2] \o ": " \o res[t].inv[i][3]
          /\ res[t].inv # <<>> \/ res[t].payload = res[t].msg \o ": " \o res[t].adet
          /\ (res[t].fn = "True" /\ res[t].msg = "x") =>
               /\ res[t].payload = "x: expected true, got false"
               /\ Len(res[t].H) = 1 =>
                    res[t].inv = << <<res[t].H[1], "x", "expected true, got false">> >>

C2_Witness ==
    \E t \in Threads :
        /\ Aborted(t) /\ res[t].fn = "True" /\ res[t].msg = "x"
        /\ failureHandlers = <<"h1">>
        /\ res[t].inv = << <<"h1", "x", "expected true, got false">> >>
        /\ res[t].payload = "x: expected true, got false"

C4_AppendOnly ==
    [][ \/ failureHandlers' = failureHandlers
        \/ \E t \in Threads :
             /\ OnTop(t, "Register") /\ Top(t).pc = "store"
             /\ failureHandlers' = Append(failureHandlers, Top(t).name) ]_vars

C4_Witness ==
    /\ Len(failureHandlers) = 2
    /\ \E t \in Threads : Aborted(t) /\ Len(res[t].inv) = 2

\* C5: registrations exclude each other: at most one goroutine is between
\* Lock and Unlock, and whenever the lock is free the registry is exactly
\* the handlers of the registrations made, one entry each, in the order
\* they took the lock.
C5_RegistrationsSerialized ==
    /\ \A t, u \in Threads :
         (/\ OnTop(t, "Register") /\ Top(t).pc \in {"append", "store", "unlock"}
          /\ OnTop(u, "Register") /\ Top(u).pc \in {"append", "store", "unlock"})
           => (t = u /\ mutex = t)
    /\ mutex = NoThread => failureHandlers = regOrder
    /\ \A t \in Threads :
         (OnTop(t, "Register") /\ Top(t).pc \in {"append", "store"}) =>
           regOrder = Append(failureHandlers, Top(t).name)

C5_Witness ==
    /\ mutex = NoThread
    /\ res["t1"].op = "Register" /\ res["t1"].state = "returned"
    /\ res["t2"].op = "Register" /\ res["t2"].state = "returned"
    /\ res["t1"].fn # res["t2"].fn
    /\ failureHandlers = <<res["t2"].fn, res["t1"].fn>>

\* C6: no dispatch reads the registry while another goroutine is between
\* Lock and Unlock of RegisterFailureHandler.
C6_NoRacyRead ==
    \A fr \in Frames : fr.fn = "abort" => ~fr.raced

\* equality and order of the values themselves: a NaN is equal to nothing
\* and in no order with anything
SameValue(a, b) == a = b /\ ~a.nan
Above(a, b) == ~a.nan /\ ~b.nan /\ a.n > b.n

\* C7: Equal(a, b) passes iff a == b, NotEqual(a, b) passes iff a != b, and
\* of the two calls on one pair exactly one passes.
C7_EqualNotEqual ==
    \A t, u \in Threads :
        /\ Finished(t, "Equal") => (Passed(t, "Equal") <=> SameValue(input.a, input.b))
        /\ Finished(t, "NotEqual") => (Passed(t, "NotEqual") <=> ~SameValue(input.a, input.b))
        /\ (Finished(t, "Equal") /\ Finished(u, "NotEqual")) =>
             (Passed(t, "Equal") <=> Failed(u, "NotEqual"))

C7_Witness ==
    /\ input.a = NaN /\ input.b = NaN
    /\ Failed("t1", "Equal") /\ Passed("t2", "NotEqual")

\* C8: GreaterThan(v, t) passes iff v > t, LessThan iff v < t,
\* GreaterThanOrEqual iff v >= t, LessThanOrEqual iff v <= t, for all
\* numeric v and t.
C8_Comparators ==
    \A t \in Threads :
        /\ Finished(t, "GreaterThan") =>
             (Passed(t, "GreaterThan") <=> Above(input.a, input.b))
        /\ Finished(t, "LessThan") =>
             (Passed(t, "LessThan") <=> Above(input.b, input.a))
        /\ Finished(t, "GreaterThanOrEqual") =>
             (Passed(t, "GreaterThanOrEqual")
                <=> (Above(input.a, input.b) \/ SameValue(input.a, input.b)))
        /\ Finished(t, "LessThanOrEqual") =>
             (Passed(t, "LessThanOrEqual")
                <=> (Above(input.b, input.a) \/ SameValue(input.a, input.b)))

\* the kind of a value's type
IsMap(v) == v.t \in {"map[any]any", "map[string]int"}
IsSlice(v) == v.t \in {"[]any", "[]int"}
IsString(v) == v.t = "string"
IsContainer(v) == IsMap(v) \/ IsSlice(v) \/ IsString(v)

\* C9: on a map, a slice or a string NotEmpty passes iff the length is not
\* zero and Empty passes iff it is zero, so exactly one of them passes; on a
\* value of any other kind both fail.
C9_EmptyComplement ==
    \A t \in Threads :
        /\ Finished(t, "NotEmpty") =>
             (Passed(t, "NotEmpty") <=> (IsContainer(input.a) /\ GoLen(input.a) # 0))
        /\ Finished(t, "Empty") =>
             (Passed(t, "Empty") <=> (IsContainer(input.a) /\ GoLen(input.a) = 0))

\* C10: NotEmpty panics on a slice, map or string iff it is empty, whatever
\* the element or key type.
C10_NotEmptyAnyElementType ==
    \A t \in Threads :
        (Finished(t, "NotEmpty") /\ IsContainer(input.a)) =>
          (Failed(t, "NotEmpty") <=> GoLen(input.a) = 0)

\* the kinds of boxed value NotNil distinguishes
IsScalar(v) == v.t \in {"int", "float64", "string", "bool"}
IsPointer(v) == v.t \in PointerTypes

\* C11: NotNil fails on the nil interface, with exactly one dispatch and the
\* details "expected a non-nil value, got nil", and on a typed nil pointer,
\* with the details "... got nil pointer of type T"; it passes on a concrete
\* non-pointer value and on a pointer bound to a target.
C11_NotNilThreeCases ==
    \A t \in Threads :
        Finished(t, "NotNil") =>
          /\ input.a = NilInterface =>
               /\ Failed(t, "NotNil") /\ res[t].ndisp = 1
               /\ Aborted(t) => res[t].adet = "expected a non-nil value, got nil"
          /\ (IsPointer(input.a) /\ input.a.isnil) =>
               /\ Failed(t, "NotNil") /\ res[t].ndisp = 1
               /\ Aborted(t) =>
                    res[t].adet = "expected a non-nil value, got nil pointer of type "
                                    \o input.a.t
          /\ (IsPointer(input.a) /\ ~input.a.isnil) => Passed(t, "NotNil")
          /\ IsScalar(input.a) => Passed(t, "NotNil")

C11_Witness ==
    \E t \in Threads :
        /\ IsPointer(input.a) /\ input.a.isnil
        /\ Failed(t, "NotNil") /\ Aborted(t) /\ res[t].ninv = 1
        /\ res[t].adet = "expected a non-nil value, got nil pointer of type *int"

\* what the path of the input names in the file system
PathState == IF input.a.s = EntryName THEN fs ELSE "missing"

\* C12: on a path that is missing, a regular file or a directory, FileExists
\* fails on the missing path and passes on the file; DirExists fails on the
\* missing path, fails on the file (it exists, but is not a directory) and
\* passes on the directory.
C12_FileDirExists ==
    \A t \in Threads :
        /\ Finished(t, "FileExists") =>
             /\ PathState = "missing" =>
                  /\ Failed(t, "FileExists")
                  /\ Aborted(t) => res[t].adet = "expected file " \o input.a.s
                                                  \o " to exist, but it does not"
             /\ PathState = "file" => Passed(t, "FileExists")
        /\ Finished(t, "DirExists") =>
             /\ PathState = "missing" =>
                  /\ Failed(t, "DirExists")
                  /\ Aborted(t) => res[t].adet = "expected directory " \o input.a.s
                                                  \o " to exist, but it does not"
             /\ PathState = "file" =>
                  /\ Failed(t, "DirExists")
                  /\ Aborted(t) => res[t].adet = "expected " \o input.a.s
                                                  \o " to be a directory, but it is not"
             /\ PathState = "dir" => Passed(t, "DirExists")

C12_Witness ==
    /\ PathState = "file"
    /\ Passed("t1", "FileExists")
    /\ Failed("t2", "DirExists") /\ Aborted("t2") /\ res["t2"].obs = <<"file", "file">>

\* the input is a pair of pointers
PointerPair == IsPointer(input.a) /\ IsPointer(input.b)
SomeNil == input.a.isnil \/ input.b.isnil

\* C13: PointsToSame and PointsToNotSame both fail when a or b is nil, by
\* abort and never by the run-time panic of a nil dereference; on two non-nil
\* pointers PointsToSame passes iff the pointees are equal (also at distinct
\* addresses) and PointsToNotSame passes iff they differ, so there exactly
\* one of the two passes.
C13_PointsTo ==
    \A t, u \in Threads :
        /\ res[t].fn \in {"PointsToSame", "PointsToNotSame"} => res[t].by # "runtime"
        /\ (Finished(t, "PointsToSame") /\ SomeNil) =>
             /\ Failed(t, "PointsToSame")
             /\ Aborted(t) => res[t].adet = "expected non-nil pointers, got nil"
        /\ (Finished(t, "PointsToNotSame") /\ SomeNil) =>
             /\ Failed(t, "PointsToNotSame")
             /\ Aborted(t) => res[t].adet = "expected non-nil pointers, got nil"
        /\ (Finished(t, "PointsToSame") /\ ~SomeNil) =>
             (Passed(t, "PointsToSame") <=> input.a.n = input.b.n)
        /\ (Finished(t, "PointsToNotSame") /\ ~SomeNil) =>
             (Passed(t, "PointsToNotSame") <=> input.a.n # input.b.n)
        /\ (Finished(t, "PointsToSame") /\ Finished(u, "PointsToNotSame") /\ ~SomeNil) =>
             (Passed(t, "PointsToSame") <=> Failed(u, "PointsToNotSame"))

C13_Witness ==
    /\ PointerPair /\ input.a.isnil /\ ~input.b.isnil
    /\ Failed("t1", "PointsToSame") /\ Aborted("t1")
    /\ Failed("t2", "PointsToNotSame") /\ Aborted("t2")
    /\ res["t1"].adet = "expected non-nil pointers, got nil"

\* the keys of the map of the input
KeysOf(m) == {e.k : e \in m.entries}

\* C14: MapHas(m, k) passes iff k is a key of m and MapNotHas(m, k) passes iff
\* it is not, whatever value is stored under k (the zero value included; the
\* empty map and the nil map have no key), so exactly one of the two passes;
\* on {"a": 1, "b": 2} MapHas fails for "c" and passes for "a".
C14_MapHas ==
    \A t, u \in Threads :
        /\ Finished(t, "MapHas") =>
             (Passed(t, "MapHas") <=> input.b.s \in KeysOf(input.a))
        /\ Finished(t, "MapNotHas") =>
             (Passed(t, "MapNotHas") <=> input.b.s \notin KeysOf(input.a))
        /\ (Finished(t, "MapHas") /\ Finished(u, "MapNotHas")) =>
             (Passed(t, "MapHas") <=> Failed(u, "MapNotHas"))
        /\ (Finished(t, "MapHas") /\ input.a.entries = {Entry("a", 1), Entry("b", 2)}) =>
             /\ input.b.s = "c" => Failed(t, "MapHas")
             /\ input.b.s = "a" => Passed(t, "MapHas")

C14_Witness ==
    /\ input.a.entries = {Entry("a", 0), Entry("b", 2)} /\ input.b.s = "a"
    /\ Passed("t1", "MapHas")
    /\ Failed("t2", "MapNotHas") /\ Aborted("t2")
    /\ res["t2"].adet = "expected map to not have key a, but it does"

\* C15: IsNil passes iff the value is the nil interface and IsNotNil passes
\* iff it is not, whatever the interface holds; so on a typed nil pointer
\* IsNotNil passes and IsNil fails, while NotNil fails; and on every value on
\* which NotNil passes IsNotNil passes too.
C15_InterfaceNilness ==
    \A t, u \in Threads :
        /\ Finished(t, "IsNil") => (Passed(t, "IsNil") <=> input.a = NilInterface)
        /\ Finished(t, "IsNotNil") => (Passed(t, "IsNotNil") <=> input.a # NilInterface)
        /\ (IsPointer(input.a) /\ input.a.isnil) =>
             /\ Finished(t, "IsNotNil") => Passed(t, "IsNotNil")
             /\ Finished(t, "IsNil") => Failed(t, "IsNil")
             /\ Finished(t, "NotNil") => Failed(t, "NotNil")
        /\ (Passed(t, "NotNil") /\ Finished(u, "IsNotNil")) => Passed(u, "IsNotNil")

C15_Witness ==
    /\ IsPointer(input.a) /\ input.a.isnil
    /\ Passed("t1", "IsNotNil")
    /\ Failed("t2", "NotNil") /\ Aborted("t2")

\* C16: a panic raised by a handler during dispatch is not caught by the
\* package: it unwinds abort and the check function and reaches the caller
\* with the handler's own payload; the handlers after it are not invoked, and
\* the check call does not return normally.
C16_HandlerPanicPropagates ==
    /\ \A t \in Threads :
         res[t].by = "handler" =>
           /\ res[t].op = "check" /\ res[t].state = "panicked"
           /\ ~Running(t)
           /\ res[t].payload = "handler panic"
           /\ res[t].ndisp = 1 /\ res[t].ninv >= 1
    /\ \A t \in Threads :
         \A i \in DOMAIN stack[t] :
             (stack[t][i].fn = "abort" /\ stack[t][i].pc = "loop") =>
               \A j \in DOMAIN stack[t][i].inv :
                   (stack[t][i].inv[j][1] = "hPanic") =>
                     (j = Len(stack[t][i].inv) /\ i < Len(stack[t])
                        /\ stack[t][i + 1].name = "hPanic")

C16_Witness ==
    \E t \in Threads :
        /\ failureHandlers = <<"hPanic", "h1">>
        /\ res[t].op = "check" /\ res[t].state = "panicked" /\ res[t].by = "handler"
        /\ res[t].payload = "handler panic" /\ res[t].ninv = 1

\* of the calls of P and Q on one input, exactly one passes
Complements(P, Q) ==
    \A t, u \in Threads :
        (Finished(t, P) /\ Finished(u, Q)) => (Passed(t, P) <=> Failed(u, Q))

\* the pairs are complements, and True, NoError and MapEmpty pass as stated
PairedChecks ==
    /\ Complements("True", "False") /\ Complements("NoError", "Error")
    /\ Complements("TypeOf", "TypeOfNot") /\ Complements("MapEmpty", "MapNotEmpty")
    /\ \A t \in Threads :
         /\ Finished(t, "True") => (Passed(t, "True") <=> input.a = BoolVal(TRUE))
         /\ Finished(t, "NoError") => (Passed(t, "NoError") <=> input.a = NilInterface)
         /\ Finished(t, "MapEmpty") => (Passed(t, "MapEmpty") <=> input.a.n = 0)
         /\ (Finished(t, "TypeOf") /\ input.a = NilInterface) => Failed(t, "TypeOf")

\* the non-nil value satisfies interface type T
Satisfies(v, T) ==
    /\ v # NilInterface
    /\ T = TypeArg("any") \/ (T = TypeArg("error") /\ v \in Errors)

\* C17 as stated: True/False, NoError/Error, TypeOf[T]/TypeOfNot[T] and
\* MapEmpty/MapNotEmpty are exact complements; True passes iff the boolean is
\* true, NoError iff the error is nil, MapEmpty iff the map has no entries,
\* and TypeOf[T] passes iff the dynamic type of the value is T.
C17_AsStated ==
    /\ PairedChecks
    /\ \A t \in Threads :
         Finished(t, "TypeOf") => (Passed(t, "TypeOf") <=> input.a.t = input.b.s)

\* C17, amended: the four pairs are exact complements; True passes iff the
\* boolean is true, NoError iff the error is nil, MapEmpty iff the map has no
\* entries, and TypeOf[T] passes iff the dynamic type of the value is T or, T
\* being an interface type, the value is not nil and its dynamic type
\* implements T; so TypeOf fails on a nil value.
C17_Complements ==
    /\ PairedChecks
    /\ \A t \in Threads :
         Finished(t, "TypeOf") =>
           (Passed(t, "TypeOf")
              <=> (input.a.t = input.b.s \/ Satisfies(input.a, input.b)))

C17_Witness ==
    /\ input.a = IntVal(0) /\ input.b = TypeArg("any")
    /\ Passed("t1", "TypeOf")
    /\ Failed("t2", "TypeOfNot") /\ Aborted("t2")
    /\ res["t2"].adet = "expected value not of type *any, got int"

\* the handlers of a list of invocations
Names(inv) == [i \in DOMAIN inv |-> inv[i][1]]
IsPrefix(p, q) == Len(p) <= Len(q) /\ p = SubSeq(q, 1, Len(p))

C19_DirExistsOnlyOnDirectory ==
    \A t \in Threads :
        Passed(t, "DirExists") => \E i \in DOMAIN res[t].obs : res[t].obs[i] = "dir"

\* v is an element of s: some element of s equals v
ElementOf(v, sl) == \E i \in DOMAIN sl.elems : SameValue(sl.elems[i], v)

\* the calls of P and Q on one input pass together and fail together, and
\* their violations carry different details
Equivalent(P, Q) ==
    \A t, u \in Threads :
        (Finished(t, P) /\ Finished(u, Q)) =>
          /\ Passed(t, P) <=> Passed(u, Q)
          /\ (Aborted(t) /\ Aborted(u)) =>
               /\ res[t].adet # res[u].adet
               /\ Names(res[t].inv) = Names(res[u].inv)

\* C20: Contains(s, v) and SliceHas(s, v) pass iff v is an element of s,
\* NotContains(s, v) and SliceNotHas(s, v) pass iff it is not (the empty and
\* the nil slice have no element); the members of each pair pass and fail
\* together, invoke the same handlers and differ in the details only.
C20_ContainsSliceHas ==
    /\ Equivalent("Contains", "SliceHas")
    /\ Equivalent("NotContains", "SliceNotHas")
    /\ \A t \in Threads :
         /\ Finished(t, "Contains") =>
              (Passed(t, "Contains") <=> ElementOf(input.b, input.a))
         /\ Finished(t, "SliceHas") =>
              (Passed(t, "SliceHas") <=> ElementOf(input.b, input.a))
         /\ Finished(t, "NotContains") =>
              (Passed(t, "NotContains") <=> ~ElementOf(input.b, input.a))
         /\ Finished(t, "SliceNotHas") =>
              (Passed(t, "SliceNotHas") <=> ~ElementOf(input.b, input.a))
         /\ Aborted(t) =>
              /\ res[t].fn = "Contains" =>
                   res[t].adet = "expected slice to contain " \o FmtV(input.b)
                                   \o ", but it does not"
              /\ res[t].fn = "SliceHas" =>
                   res[t].adet = "expected slice to have " \o FmtV(input.b)
                                   \o ", but it does not"

C20_Witness ==
    /\ input.a = SliceVal("[]int", <<IntVal(0), IntVal(1)>>) /\ input.b = IntVal(1)
    /\ Passed("t1", "Contains") /\ Passed("t2", "SliceHas")

\* C21: with handlers that return, register a handler or call a check
\* function, a violation ends in abort's panic after finitely many handler
\* invocations: no call re-enters dispatch until the goroutine's stack is
\* exhausted.
C21_DispatchTerminates ==
    \A t \in Threads : res[t].by # "overflow"

====
